---- MODULE Spec2Model ----
(***************************************************************************)
(* Model of sdv/modeler.py: the Modeler class, which runs Conditional      *)
(* Parameter Aggregation (CPA) over a hierarchy of tables.                 *)
(*                                                                         *)
(* Representation.                                                         *)
(*  - A cell of a pandas frame is a record [na, n, d]: na is TRUE for a    *)
(*    missing value (NaN / None), otherwise the cell is the number n/d.    *)
(*  - A string built with the '__' delimiter is the sequence of its        *)
(*    '__'-separated segments: '__orders__mu__0' is <<"","orders","mu",    *)
(*    "0">>, so that joining with '__' is concatenation of sequences.      *)
(*  - A frame is [cols, dtypes, index, data] with data[r][c] the cell of   *)
(*    row r and column c; dtypes[c] is "num" for an int64/float64 column   *)
(*    and "obj" for any other dtype.                                       *)
(*  - A nested parameter value is a node [tag, kids, v]: tag is "dict",    *)
(*    "list", "ndarray" or "scalar"; kids is the ordered sequence of       *)
(*    [k, n] entries (k the key of a dict entry, n the child node); v is   *)
(*    the cell of a scalar.                                                *)
(***************************************************************************)
EXTENDS Integers, Sequences, FiniteSets, TLC

\* Bounds of the model.
MaxRows == 3    \* rows of a table of the two-level datasets (DataSpec)
SmallRows == 1  \* rows of a table of the datasets over every schema (Spec)
FitRows == 2    \* rows of a frame given to _fit_model (FitSpec)
MaxLen == 2     \* elements of a list or array given to the flattener

\* ------------------------------------------------------------------ cells

NaN == [na |-> TRUE, n |-> 0, d |-> 1]

RECURSIVE Gcd(_, _)
Gcd(a, b) == IF b = 0 THEN a ELSE Gcd(b, a % b)

Abs(a) == IF a < 0 THEN 0 - a ELSE a

Rat(n, d) ==
    LET g == Gcd(Abs(n), d)
    IN [na |-> FALSE, n |-> n \div g, d |-> d \div g]

Num(k) == Rat(k, 1)

Add(x, y) == Rat(x.n * y.d + y.n * x.d, x.d * y.d)

Less(x, y) == x.n * y.d < y.n * x.d

Range(s) == {s[i] : i \in DOMAIN s}

RECURSIVE SumCells(_)
SumCells(s) == IF s = <<>> THEN Num(0) ELSE Add(Head(s), SumCells(Tail(s)))

NotNa(c) == ~c.na

\* pandas Series.mean(): the mean of the non-missing values, NaN when there is none.
Mean(column) ==
    LET present == SelectSeq(column, NotNa)
        total == SumCells(present)
    IN IF present = <<>> THEN NaN
       ELSE Rat(total.n, total.d * Len(present))

\* pandas Series.mode(): the most frequent non-missing values, sorted ascending.
\* ModeSet is the set of those values; mode()[0] is its least element and
\* raises when the result is empty.
Count(column, v) == Cardinality({i \in DOMAIN column : column[i] = v})

ModeSet(column) ==
    LET present == {c \in Range(column) : ~c.na}
    IN {v \in present : \A w \in present : Count(column, w) <= Count(column, v)}

ModeFirst(column) ==
    CHOOSE v \in ModeSet(column) : \A w \in ModeSet(column) : ~Less(w, v)

\* Series.fillna(value): a NaN fill value leaves the missing cells missing.
FillNa(column, value) ==
    [i \in DOMAIN column |-> IF column[i].na THEN value ELSE column[i]]

\* ----------------------------------------------------------------- frames

EmptyFrame == [cols |-> <<>>, dtypes |-> <<>>, index |-> <<>>, data |-> <<>>]

NRows(f) == Len(f.index)

Column(f, c) == [r \in 1..NRows(f) |-> f.data[r][c]]

ColPos(f, name) == CHOOSE c \in DOMAIN f.cols : f.cols[c] = name

HasCol(f, name) == \E c \in DOMAIN f.cols : f.cols[c] = name

SetColumn(f, c, column) ==
    [f EXCEPT !.data = [r \in 1..NRows(f) |->
                          [f.data[r] EXCEPT ![c] = column[r]]]]

\* frame[name] = values: replaces the column when it exists, appends it otherwise.
AssignColumn(f, name, column) ==
    IF HasCol(f, name)
    THEN SetColumn(f, ColPos(f, name), column)
    ELSE [f EXCEPT !.cols = Append(f.cols, name),
                   !.dtypes = Append(f.dtypes, "num"),
                   !.data = [r \in 1..NRows(f) |-> Append(f.data[r], column[r])]]

HasMissing(f) ==
    \E r \in 1..NRows(f) : \E c \in DOMAIN f.cols : f.data[r][c].na

\* ------------------------------------------------------------- _impute

\* The fill value of one column, and whether computing it raises.
ImputeRaises(f, c) == f.dtypes[c] /= "num" /\ ModeSet(Column(f, c)) = {}

FillValue(f, c) ==
    IF f.dtypes[c] = "num" THEN Mean(Column(f, c)) ELSE ModeFirst(Column(f, c))

\* Modeler._impute(data): the columns are filled in order, in place, up to the
\* first one on which mode()[0] raises; ok is FALSE when one does.
Impute(data) ==
    LET raising == {c \in DOMAIN data.cols : ImputeRaises(data, c)}
        done(c) == \A b \in raising : c < b
    IN [ok |-> raising = {},
        frame |-> [data EXCEPT !.data =
            [r \in 1..NRows(data) |->
               [c \in DOMAIN data.cols |->
                  IF done(c) /\ data.data[r][c].na
                  THEN FillValue(data, c)
                  ELSE data.data[r][c]]]]]

\* ------------------------------------------------- nested parameter values

Scalar(c) == [tag |-> "scalar", kids |-> <<>>, v |-> c]

Dict(kids) == [tag |-> "dict", kids |-> kids, v |-> NaN]

List(kids) == [tag |-> "list", kids |-> kids, v |-> NaN]

NdArray(kids) == [tag |-> "ndarray", kids |-> kids, v |-> NaN]

Entry(key, node) == [k |-> key, n |-> node]

\* The elements of a list or array carry no key.
Elems(nodes) == [i \in DOMAIN nodes |-> Entry(<<>>, nodes[i])]

IGNORED_DICT_KEYS == {<<"fitted">>, <<"distribution">>, <<"type">>}

\* A flattened dict is the ordered sequence of its [key, val] items.
HasKey(result, key) == \E i \in DOMAIN result : result[i].key = key

\* result[key] = val
SetItem(result, key, val) ==
    IF HasKey(result, key)
    THEN [i \in DOMAIN result |->
            IF result[i].key = key THEN [key |-> key, val |-> val] ELSE result[i]]
    ELSE Append(result, [key |-> key, val |-> val])

\* result.update(other): the keys result has keep their place and take the
\* value of other, the new keys follow in the order of other.
Update(result, other) ==
    [i \in DOMAIN result |->
        IF HasKey(other, result[i].key)
        THEN other[CHOOSE j \in DOMAIN other : other[j].key = result[i].key]
        ELSE result[i]]
    \o SelectSeq(other, LAMBDA item : ~HasKey(result, item.key))

\* '__'.join([prefix, key]) if len(prefix) else key
JoinKey(prefix, key) == IF Len(prefix) > 0 THEN prefix \o key ELSE key

\* ----------------------------------------------------- _flatten_array

RECURSIVE FlattenArrayFrom(_, _, _, _)
FlattenArrayFrom(nested, prefix, i, result) ==
    IF i > Len(nested.kids) THEN result
    ELSE LET elem == nested.kids[i].n
             prefix_key == JoinKey(prefix, <<ToString(i - 1)>>)
         IN FlattenArrayFrom(nested, prefix, i + 1,
                IF elem.tag \in {"list", "ndarray"}
                THEN Update(result, FlattenArrayFrom(elem, prefix_key, 1, <<>>))
                ELSE SetItem(result, prefix_key, elem))

FlattenArray(nested, prefix) == FlattenArrayFrom(nested, prefix, 1, <<>>)

\* ------------------------------------------------------ _flatten_dict

\* The test of line 81: the entry is skipped.
IsIgnored(key, value) ==
    key \in IGNORED_DICT_KEYS /\ value.tag \notin {"dict", "list"}

RECURSIVE FlattenDictFrom(_, _, _, _)
FlattenDictFrom(nested, prefix, i, result) ==
    IF i > Len(nested.kids) THEN result
    ELSE LET key == nested.kids[i].k
             value == nested.kids[i].n
             prefix_key == JoinKey(prefix, key)
         IN FlattenDictFrom(nested, prefix, i + 1,
                IF IsIgnored(key, value) THEN result
                ELSE IF value.tag = "dict"
                THEN Update(result, FlattenDictFrom(value, prefix_key, 1, <<>>))
                ELSE IF value.tag \in {"ndarray", "list"}
                THEN Update(result, FlattenArray(value, prefix_key))
                ELSE SetItem(result, prefix_key, value))

FlattenDict(nested, prefix) == FlattenDictFrom(nested, prefix, 1, <<>>)

\* ------------------------------------------ the flattener on bounded inputs

FlatKeys == {<<"type">>, <<"a">>}

One == Scalar(Num(1))

\* Sequences over S of length at most n.
SeqUpTo(S, n) == UNION {[1..k -> S] : k \in 0..n}

\* The orderings of the dicts over the keys FlatKeys with values in S.
DictsOver(S) ==
    {Dict(<<>>)}
    \cup {Dict(<<Entry(k, s)>>) : k \in FlatKeys, s \in S}
    \cup {Dict(<<Entry(p[1], s1), Entry(p[2], s2)>>) :
            p \in {q \in FlatKeys \X FlatKeys : q[1] /= q[2]}, s1 \in S, s2 \in S}

ListsOver(S) == {List(Elems(e)) : e \in SeqUpTo(S, MaxLen)}

ArraysOver(S) == {NdArray(Elems(e)) : e \in SeqUpTo(S, MaxLen)}

Level0 == {One}

Level1 == DictsOver(Level0) \cup ListsOver(Level0) \cup ArraysOver(Level0)

Level2 == LET S == Level0 \cup Level1
          IN DictsOver(S) \cup ListsOver(S) \cup ArraysOver(S)

\* The dicts handed to _flatten_dict: any dict of depth two, and the dicts of
\* one entry of depth three.
FlatInputs ==
    DictsOver(Level0 \cup Level1)
    \cup {Dict(<<Entry(k, s)>>) : k \in FlatKeys, s \in Level2}

\* ------------------------------------------------------------ the schema

\* metadata.get_tables(): the tables in schema-declared order.
TableOrder == <<"A", "B", "C">>

Tables == Range(TableOrder)

NoTable == "none"

PK == <<"id">>

FK == <<"parent_id">>

X == <<"x">>

VARIABLES
    parentOf,   \* the schema: the parent of each table, NoTable for a root
    hasPK,      \* the schema: whether metadata.get_primary_key(t) is set
    rowLimit,   \* the dataset: the most rows a table holds; keys are in 1..rowLimit
    pc,         \* model_database: "run", "done" (returned) or "failed" (raised)
    cursor,     \* model_database: position in get_tables() of the for loop
    stack,      \* the active cpa calls, innermost last
    models,     \* Modeler.models, the registry
    nested,     \* the argument of a _flatten_dict call
    flat,       \* its result
    flatDone,   \* whether _flatten_dict has returned
    data0,      \* the frame given to _fit_model, as it was at the call
    data,       \* the caller's frame
    fitState    \* _fit_model: "call", "raised" (_impute raised) or "fit" (model.fit called)

vars == <<parentOf, hasPK, rowLimit, pc, cursor, stack, models,
          nested, flat, flatDone, data0, data, fitState>>

schemaVars == <<parentOf, hasPK, rowLimit>>

cpaVars == <<schemaVars, pc, cursor, stack, models>>

flatVars == <<nested, flat, flatDone>>

fitVars == <<data0, data, fitState>>

\* metadata.get_parents(t) and metadata.get_children(t)
GetParents(t) == {p \in Tables : parentOf[t] = p}

GetChildren(t) == {c \in Tables : parentOf[c] = t}

RECURSIVE Depth(_, _, _)
Depth(par, t, fuel) ==
    IF par[t] = NoTable THEN 0
    ELSE IF fuel = 0 THEN Cardinality(Tables)
    ELSE 1 + Depth(par, par[t], fuel - 1)

\* The schemas: the forests over Tables (no table is its own ancestor).
Forests ==
    {par \in [Tables -> Tables \cup {NoTable}] :
        \A t \in Tables : Depth(par, t, Cardinality(Tables)) < Cardinality(Tables)}

\* The tables reachable from t through get_children where every table that
\* is descended through declares a primary key.
RECURSIVE Visited(_, _)
Visited(t, fuel) ==
    {t} \cup (IF hasPK[t] /\ fuel > 0
              THEN UNION {Visited(c, fuel - 1) : c \in GetChildren(t)}
              ELSE {})

RECURSIVE Descendants(_, _)
Descendants(t, fuel) ==
    {t} \cup (IF fuel > 0
              THEN UNION {Descendants(c, fuel - 1) : c \in GetChildren(t)}
              ELSE {})

Roots == {t \in Tables : GetParents(t) = {}}

\* ------------------------------------------------- the metadata collaborator

RangeIndex(n) == [r \in 1..n |-> r - 1]

Opt(flag, s) == IF flag THEN s ELSE <<>>

\* A table of n rows: its primary key (when declared) holds 1..n, its foreign
\* key (when it has a parent) holds fks, its data column x holds 1..n.
RawTable(n, fks, withPK, withFK) ==
    [cols |-> Opt(withPK, <<PK>>) \o Opt(withFK, <<FK>>) \o <<X>>,
     dtypes |-> Opt(withPK, <<"num">>) \o Opt(withFK, <<"num">>) \o <<"num">>,
     index |-> RangeIndex(n),
     data |-> [r \in 1..n |->
                 Opt(withPK, <<Num(r)>>) \o Opt(withFK, <<Num(fks[r])>>) \o <<Num(r)>>]]

\* metadata.load_table(t) / tables[t]: the tables a dataset can hold.
LoadTable(t) ==
    UNION {{RawTable(n, fks, hasPK[t], parentOf[t] /= NoTable) :
              fks \in IF parentOf[t] /= NoTable
                      THEN [1..n -> 1..rowLimit]
                      ELSE {[r \in 1..n |-> 0]}} :
           n \in 0..rowLimit}

KeepCols(f, keep) ==
    LET pos == SelectSeq([c \in DOMAIN f.cols |-> c], LAMBDA c : f.cols[c] \in keep)
    IN [cols |-> [i \in DOMAIN pos |-> f.cols[pos[i]]],
        dtypes |-> [i \in DOMAIN pos |-> f.dtypes[pos[i]]],
        index |-> f.index,
        data |-> [r \in 1..NRows(f) |-> [i \in DOMAIN pos |-> f.data[r][pos[i]]]]]

\* metadata.transform(t, table): the model-ready columns (the key columns are
\* not among them), rows in the table's order.
Transform(table) == KeepCols(table, Range(table.cols) \ {PK, FK})

\* The values of a key column, as index labels.
KeyValues(f, name) == [r \in 1..NRows(f) |-> f.data[r][ColPos(f, name)].n]

\* ------------------------------------------------------ _get_model_dict

\* np.tril(model.covariance) cut to its ragged rows: row i keeps i entries.
\* The fitting primitive is a collaborator: of its parameters only the
\* per-column mean is computed, every other number is written 0.
Covariance(n) ==
    List(Elems([i \in 1..n |-> List(Elems([j \in 1..i |-> Scalar(Num(0))]))]))

Distribution(column) ==
    Dict(<<Entry(<<"type">>, Scalar(Num(1))),
           Entry(<<"fitted">>, Scalar(Num(1))),
           Entry(<<"mean">>, Scalar(Mean(column))),
           Entry(<<"std">>, Scalar(Num(0)))>>)

\* model.to_dict() of the model fitted on frame g, after lines 138-147.
ToDict(g) ==
    Dict(<<Entry(<<"covariance">>, Covariance(Len(g.cols))),
           Entry(<<"distribs">>,
                 Dict([c \in DOMAIN g.cols |->
                         Entry(g.cols[c], Distribution(Column(g, c)))])),
           Entry(<<"distribution">>, Scalar(Num(1))),
           Entry(<<"fitted">>, Scalar(Num(1))),
           Entry(<<"type">>, Scalar(Num(1)))>>)

\* Modeler._get_model_dict(data), given that _impute and model.fit succeed.
GetModelDict(g) == FlattenDict(ToDict(Impute(g).frame), <<>>)

\* ------------------------------------------------------- _get_extension

\* The distinct elements of s in order of first appearance.
FirstOccurrences(s) ==
    LET first == SelectSeq([i \in DOMAIN s |-> i],
                           LAMBDA i : \A j \in 1..(i - 1) : s[j] /= s[i])
    IN [i \in DOMAIN first |-> s[first[i]]]

\* A unique() that returns the distinct values sorted.
UniqueSorted(s) ==
    LET values == Range(s)
        rank(v) == Cardinality({w \in values : w < v}) + 1
    IN [i \in 1..Cardinality(values) |-> CHOOSE v \in values : rank(v) = i]

\* A unique() that keeps the repeated values.
UniqueRepeats(s) == s

\* Series.unique(): the distinct values in order of first appearance.
Unique(s) == FirstOccurrences(s)

\* child_table.set_index(foreign_key).loc[[value]]
GroupRows(child_table, foreign_key, value) ==
    LET keys == KeyValues(child_table, foreign_key)
        rows == SelectSeq([r \in 1..NRows(child_table) |-> r],
                          LAMBDA r : keys[r] = value)
        rest == KeepCols(child_table, Range(child_table.cols) \ {foreign_key})
    IN [rest EXCEPT !.index = [i \in DOMAIN rows |-> value],
                    !.data = [i \in DOMAIN rows |-> rest.data[rows[i]]]]

ChildPrefix(child_name) == <<"", child_name>>

ChildRowsCol(child_name) == ChildPrefix(child_name) \o <<"child_rows">>

\* Lines 176-181: the extension row of one group.
ExtensionRow(child_name, child_rows) ==
    LET row == SetItem(GetModelDict(child_rows), <<"child_rows">>,
                       Scalar(Num(NRows(child_rows))))
    IN [i \in DOMAIN row |->
          [key |-> ChildPrefix(child_name) \o row[i].key, val |-> row[i].val]]

\* The columns of a frame built from rows: their keys, in order of appearance.
RECURSIVE AllKeys(_)
AllKeys(rows) ==
    IF rows = <<>> THEN <<>>
    ELSE [i \in DOMAIN Head(rows) |-> Head(rows)[i].key] \o AllKeys(Tail(rows))

UnionKeys(rows) == FirstOccurrences(AllKeys(rows))

Lookup(row, key) ==
    IF HasKey(row, key)
    THEN row[CHOOSE i \in DOMAIN row : row[i].key = key].val.v
    ELSE NaN

\* pd.DataFrame(extension_rows, index=foreign_key_values)
ExtensionFrame(extension_rows, foreign_key_values) ==
    LET cols == UnionKeys(extension_rows)
    IN [cols |-> cols,
        dtypes |-> [c \in DOMAIN cols |-> "num"],
        index |-> foreign_key_values,
        data |-> [r \in DOMAIN extension_rows |->
                    [c \in DOMAIN cols |-> Lookup(extension_rows[r], cols[c])]]]

\* ------------------------------------------------------------------ cpa

\* extended.merge(extension, how='left', right_index=True, left_index=True)
LeftMerge(extended, extension) ==
    LET match(r) == {j \in DOMAIN extension.index :
                        extension.index[j] = extended.index[r]}
        right(r) == IF match(r) = {}
                    THEN [c \in DOMAIN extension.cols |-> NaN]
                    ELSE extension.data[CHOOSE j \in match(r) : TRUE]
    IN [cols |-> extended.cols \o extension.cols,
        dtypes |-> extended.dtypes \o extension.dtypes,
        index |-> extended.index,
        data |-> [r \in 1..NRows(extended) |-> extended.data[r] \o right(r)]]

\* extended[name].fillna(0, inplace=True)
FillCount(extended, name) ==
    SetColumn(extended, ColPos(extended, name),
              FillNa(Column(extended, ColPos(extended, name)), Num(0)))

\* extended.reset_index(inplace=True): the index becomes the first column.
ResetIndex(extended, name) ==
    [cols |-> <<name>> \o extended.cols,
     dtypes |-> <<"num">> \o extended.dtypes,
     index |-> RangeIndex(NRows(extended)),
     data |-> [r \in 1..NRows(extended) |->
                 <<Num(extended.index[r])>> \o extended.data[r]]]

\* ------------------------------------------------------------ the state

NoModel == [fitted |-> FALSE, cols |-> <<>>, nrows |-> 0, nans |-> FALSE]

\* The model that model.fit(data) leaves in the registry: what it was fit over.
Model(frame) ==
    [fitted |-> TRUE, cols |-> frame.cols, nrows |-> NRows(frame),
     nans |-> HasMissing(frame)]

\* A cpa call that has just been entered. foreign_key is whether the argument
\* was given; merged lists the children whose extension line 218 has merged,
\* each with the foreign-key values of the child frame it was built from.
NewCall(table_name, foreign_key) ==
    [name |-> table_name, foreign_key |-> foreign_key, phase |-> "enter",
     table |-> EmptyFrame, extended |-> EmptyFrame, todo |-> {},
     child |-> NoTable, child_table |-> EmptyFrame, rows |-> <<>>,
     extension |-> EmptyFrame, merged |-> <<>>]

Top == stack[Len(stack)]

SetTop(call) == [stack EXCEPT ![Len(stack)] = call]

Running == pc = "run" /\ stack /= <<>>

\* ------------------------------------------------------ model_database

\* Lines 241-242: a table that has a parent is passed over.
ModelDatabaseSkip ==
    /\ pc = "run" /\ stack = <<>>
    /\ cursor <= Len(TableOrder)
    /\ GetParents(TableOrder[cursor]) /= {}
    /\ cursor' = cursor + 1
    /\ UNCHANGED <<schemaVars, pc, stack, models, flatVars, fitVars>>

\* Lines 241-243: cpa is called on a table with no parent.
ModelDatabaseCall ==
    /\ pc = "run" /\ stack = <<>>
    /\ cursor <= Len(TableOrder)
    /\ GetParents(TableOrder[cursor]) = {}
    /\ stack' = <<NewCall(TableOrder[cursor], FALSE)>>
    /\ cursor' = cursor + 1
    /\ UNCHANGED <<schemaVars, pc, models, flatVars, fitVars>>

\* Line 245: the loop is over and model_database returns.
ModelDatabaseReturn ==
    /\ pc = "run" /\ stack = <<>>
    /\ cursor > Len(TableOrder)
    /\ pc' = "done"
    /\ UNCHANGED <<schemaVars, cursor, stack, models, flatVars, fitVars>>

\* ------------------------------------------------------------- cpa steps

\* A cpa that never enters the loop over the children.
AfterLoadNoLoop(table_name) == "fit"

\* A cpa that enters the loop over the children without testing primary_key.
AfterLoadNoTest(table_name) == "children"

\* The phase a call is in once its frame is loaded (line 212).
AfterLoad(table_name) == IF hasPK[table_name] THEN "children" ELSE "fit"

\* Lines 204-213: the table is resolved and transformed, and indexed by its
\* primary key when it declares one.
CpaLoad ==
    /\ Running /\ Top.phase = "enter"
    /\ \E table \in LoadTable(Top.name) :
         LET extended == Transform(table)
         IN stack' = SetTop([Top EXCEPT
                !.table = table,
                !.extended = IF hasPK[Top.name]
                             THEN [extended EXCEPT !.index = KeyValues(table, PK)]
                             ELSE extended,
                !.todo = GetChildren(Top.name),
                !.phase = AfterLoad(Top.name)])
    /\ UNCHANGED <<schemaVars, pc, cursor, models, flatVars, fitVars>>

\* Lines 214-216: the loop takes a child (get_children is a set: in any
\* order) and calls cpa on it with the linking key.
CpaCallChild ==
    /\ Running /\ Top.phase = "children"
    /\ \E child_name \in Top.todo :
         stack' = Append(SetTop([Top EXCEPT !.todo = @ \ {child_name},
                                            !.child = child_name,
                                            !.phase = "wait"]),
                         NewCall(child_name, TRUE))
    /\ UNCHANGED <<schemaVars, pc, cursor, models, flatVars, fitVars>>

\* What _fit_model(data) does to data, and whether _impute raises.
FitModel(frame) == Impute(frame)

\* The registry after self.models[table_name] = model.
Register(table_name, frame) == [models EXCEPT ![table_name] = Model(frame)]

\* Lines 224-228 on the frame that was fit.
Restore(call, frame) ==
    LET reset == IF hasPK[call.name] THEN ResetIndex(frame, PK) ELSE frame
    IN IF call.foreign_key
       THEN AssignColumn(reset, FK, Column(call.table, ColPos(call.table, FK)))
       ELSE reset

\* A cpa whose line 222 is inside the loop over the children.
ReadyToFitEarly(call) == call.phase \in {"fit", "children"}

\* Line 222 is reached: there is no loop, or the loop is over.
ReadyToFit(call) ==
    call.phase = "fit" \/ (call.phase = "children" /\ call.todo = {})

\* The call in which an exception was raised. No cpa call and no
\* model_database catches it: model_database ends "failed".
Raised(call) == [call EXCEPT !.phase = "raised"]

\* A cpa that stores the model whether or not fitting it raised.
AfterFitAlways(table_name, frame, fitted) == Register(table_name, frame)

\* Line 222: the registry after _fit_model; the assignment is not reached
\* when _fit_model raises.
AfterFit(table_name, frame, fitted) ==
    IF fitted THEN Register(table_name, frame) ELSE models

\* Lines 222-228: the table's own model is fit on the extended frame and
\* stored; model.fit either returns or raises.
CpaFit ==
    /\ Running
    /\ ReadyToFit(Top)
    /\ LET fit == FitModel(Top.extended)
       IN \E fitted \in {ok \in BOOLEAN : ok => fit.ok} :
            IF fitted
            THEN /\ models' = AfterFit(Top.name, fit.frame, fitted)
                 /\ stack' = SetTop([Top EXCEPT !.extended = Restore(Top, fit.frame),
                                                !.phase = "return"])
                 /\ pc' = pc
            ELSE /\ models' = AfterFit(Top.name, fit.frame, fitted)
                 /\ stack' = SetTop(Raised([Top EXCEPT !.extended = fit.frame]))
                 /\ pc' = "failed"
    /\ UNCHANGED <<schemaVars, cursor, flatVars, fitVars>>

\* Line 230, and line 216 in the caller: the frame is returned.
CpaReturn ==
    /\ Running /\ Top.phase = "return"
    /\ stack' = IF Len(stack) = 1 THEN <<>>
                ELSE LET caller == stack[Len(stack) - 1]
                     IN Append(SubSeq(stack, 1, Len(stack) - 2),
                               [caller EXCEPT !.child_table = Top.extended,
                                              !.rows = <<>>,
                                              !.phase = "extend"])
    /\ UNCHANGED <<schemaVars, pc, cursor, models, flatVars, fitVars>>

\* foreign_key_values of line 172.
ForeignKeyValues(call) == Unique(KeyValues(call.child_table, FK))

\* Lines 174-182: the next group is selected, a model is fit on it (or
\* raises) and its flattened parameters become an extension row.
ExtendGroup ==
    /\ Running /\ Top.phase = "extend"
    /\ Len(Top.rows) < Len(ForeignKeyValues(Top))
    /\ LET value == ForeignKeyValues(Top)[Len(Top.rows) + 1]
           child_rows == GroupRows(Top.child_table, FK, value)
           fit == FitModel(child_rows)
       IN \E fitted \in {ok \in BOOLEAN : ok => fit.ok} :
            IF fitted
            THEN /\ stack' = SetTop([Top EXCEPT !.rows =
                                Append(@, ExtensionRow(Top.child, child_rows))])
                 /\ pc' = pc
            ELSE /\ stack' = SetTop(Raised(Top))
                 /\ pc' = "failed"
    /\ UNCHANGED <<schemaVars, cursor, models, flatVars, fitVars>>

\* Line 184: every group is done and _get_extension returns.
ExtensionReturn ==
    /\ Running /\ Top.phase = "extend"
    /\ Len(Top.rows) = Len(ForeignKeyValues(Top))
    /\ stack' = SetTop([Top EXCEPT
            !.extension = ExtensionFrame(Top.rows, ForeignKeyValues(Top)),
            !.phase = "merge"])
    /\ UNCHANGED <<schemaVars, pc, cursor, models, flatVars, fitVars>>

\* Lines 218-220: the extension is left-merged on the index and the missing
\* counts become 0; indexing a column the merge did not bring raises KeyError.
CpaMerge ==
    /\ Running /\ Top.phase = "merge"
    /\ LET extended == LeftMerge(Top.extended, Top.extension)
           done == Append(Top.merged,
                          [name |-> Top.child,
                           fks |-> KeyValues(Top.child_table, FK),
                           cols |-> Top.extension.cols])
       IN IF HasCol(extended, ChildRowsCol(Top.child))
          THEN /\ stack' = SetTop([Top EXCEPT
                      !.extended = FillCount(extended, ChildRowsCol(Top.child)),
                      !.merged = done,
                      !.phase = "children"])
               /\ pc' = pc
          ELSE /\ stack' = SetTop(Raised([Top EXCEPT !.extended = extended,
                                                     !.merged = done]))
               /\ pc' = "failed"
    /\ UNCHANGED <<schemaVars, cursor, models, flatVars, fitVars>>

\* ------------------------------------------------------ specifications

FlatIdle == nested = Dict(<<>>) /\ flat = <<>> /\ flatDone = TRUE

FitIdle == data0 = EmptyFrame /\ data = EmptyFrame /\ fitState = "fit"

CpaIdle ==
    /\ parentOf = [t \in Tables |-> NoTable]
    /\ hasPK = [t \in Tables |-> FALSE]
    /\ rowLimit = 0
    /\ pc = "done" /\ cursor = Len(TableOrder) + 1
    /\ stack = <<>>
    /\ models = [t \in Tables |-> NoModel]

\* A Modeler after construction, before model_database.
Constructed ==
    /\ pc = "run" /\ cursor = 1
    /\ stack = <<>>
    /\ models = [t \in Tables |-> NoModel]
    /\ FlatIdle /\ FitIdle

\* Every schema over Tables, with small tables.
Init ==
    /\ parentOf \in Forests
    /\ hasPK \in [Tables -> BOOLEAN]
    /\ rowLimit = SmallRows
    /\ Constructed

Next ==
    \/ ModelDatabaseSkip
    \/ ModelDatabaseCall
    \/ ModelDatabaseReturn
    \/ CpaLoad
    \/ CpaCallChild
    \/ CpaReturn
    \/ ExtendGroup
    \/ ExtensionReturn
    \/ CpaMerge
    \/ CpaFit

Spec == Init /\ [][Next]_vars

\* The schemas of two levels with one child: A is the parent of B, C stands
\* alone; with larger tables.
DataInit ==
    /\ parentOf = [t \in Tables |-> IF t = "B" THEN "A" ELSE NoTable]
    /\ hasPK \in [Tables -> BOOLEAN]
    /\ rowLimit = MaxRows
    /\ Constructed

DataSpec == DataInit /\ [][Next]_vars

\* _flatten_dict(nested) on the bounded inputs.
FlattenCall ==
    /\ ~flatDone
    /\ flat' = FlattenDict(nested, <<>>)
    /\ flatDone' = TRUE
    /\ UNCHANGED <<nested, cpaVars, fitVars>>

FlattenInit ==
    /\ nested \in FlatInputs /\ flat = <<>> /\ flatDone = FALSE
    /\ CpaIdle /\ FitIdle

FlattenNext == FlattenCall

FlattenSpec == FlattenInit /\ [][FlattenNext]_vars

\* _fit_model(data) on the bounded inputs.
Cells == {NaN, Num(1), Num(2)}

FitInputs ==
    UNION {{[cols |-> <<<<"a">>, <<"b">>>>, dtypes |-> dt, index |-> RangeIndex(n),
             data |-> rows] :
              dt \in [1..2 -> {"num", "obj"}], rows \in [1..n -> [1..2 -> Cells]]} :
           n \in 0..FitRows}

\* Lines 119-121: _impute works on the caller's frame; when it returns,
\* model.fit is called on the result.
FitModelCall ==
    /\ fitState = "call"
    /\ data' = FitModel(data).frame
    /\ fitState' = IF FitModel(data).ok THEN "fit" ELSE "raised"
    /\ UNCHANGED <<data0, cpaVars, flatVars>>

FitInit ==
    /\ data0 \in FitInputs /\ data = data0 /\ fitState = "call"
    /\ CpaIdle /\ FlatIdle

FitNext == FitModelCall

FitSpec == FitInit /\ [][FitNext]_vars

\* ================================================================ claims

Calls == {stack[i] : i \in DOMAIN stack}

StartsWith(name, prefix) ==
    Len(name) >= Len(prefix) /\ SubSeq(name, 1, Len(prefix)) = prefix

\* A column named '__<child>__...' for some child.
IsExtensionCol(name) == Len(name) >= 2 /\ name[1] = ""

PrimaryKeys(call) == Range(KeyValues(call.table, PK))

MergedNames(call) == {call.merged[j].name : j \in DOMAIN call.merged}

RECURSIVE MergedCols(_)
MergedCols(merged) ==
    IF merged = <<>> THEN <<>> ELSE Head(merged).cols \o MergedCols(Tail(merged))

\* ---------------------------------------------------------------- C1

WrittenAfter(t, children) ==
    /\ stack /= <<>> /\ Top.name = t
    /\ \A c \in children :
          /\ models[c].fitted
          /\ c \in MergedNames(Top)
          /\ \A i \in DOMAIN stack : stack[i].name /= c
    /\ models'[t].fitted
    /\ models'[t].cols = Transform(Top.table).cols \o MergedCols(Top.merged)
    /\ \A c \in children : ChildRowsCol(c) \in Range(models'[t].cols)

C3_ChildRowsPresent ==
    \A call \in Calls : \A j \in DOMAIN call.merged :
        LET name == ChildRowsCol(call.merged[j].name)
        IN /\ HasCol(call.extended, name)
           /\ \A r \in 1..NRows(call.extended) :
                 ~call.extended.data[r][ColPos(call.extended, name)].na

\* ---------------------------------------------------------------- C4

\* The number of child rows whose foreign key is the primary key of row r.
Matches(call, fks, r) ==
    Cardinality({k \in DOMAIN fks : fks[k] = KeyValues(call.table, PK)[r]})

\* C4, as stated: the frame cpa returns for a parent with a primary key and
\* one child has one row per parent row, its child_rows is the number of
\* matching child rows, and in a row with no match every other column of the
\* child is still missing.
C4_ReturnedFrame ==
    \A call \in Calls :
        (call.phase = "return" /\ hasPK[call.name] /\ Len(call.merged) = 1) =>
            LET f == call.extended
                kid == call.merged[1]
                count == ColPos(f, ChildRowsCol(kid.name))
            IN /\ NRows(f) = NRows(call.table)
               /\ \A r \in 1..NRows(f) :
                     /\ f.data[r][count] = Num(Matches(call, kid.fks, r))
                     /\ Matches(call, kid.fks, r) = 0 =>
                           \A c \in DOMAIN f.cols :
                               (f.cols[c] \in Range(kid.cols) /\ c /= count)
                                   => f.data[r][c].na

\* ---------------------------------------------------------------- C5

\* C5: a cpa call on a table without primary key makes no recursive call and
\* no _get_extension call for a declared child, adds no '__<child>__' column,
\* and returns the transformed frame, the rows in the order of the table.
C5_NoPrimaryKey ==
    \A i \in DOMAIN stack :
        LET call == stack[i]
        IN (~hasPK[call.name] /\ call.phase /= "enter") =>
              /\ i = Len(stack)
              /\ call.phase \in {"fit", "return", "raised"}
              /\ call.todo = GetChildren(call.name)
              /\ call.child = NoTable /\ call.rows = <<>> /\ call.merged = <<>>
              /\ \A c \in DOMAIN call.extended.cols :
                    ~IsExtensionCol(call.extended.cols[c])
              /\ NRows(call.extended) = NRows(call.table)
              /\ call.extended.index = call.table.index
              /\ KeepCols(call.extended, {X}) = Transform(call.table)
              /\ call.phase = "return" =>
                    call.extended.cols = <<X>> \o Opt(call.foreign_key, <<FK>>)

\* cpa is about to return the frame of a table that has no primary key, a
\* declared child and several rows.
C5_Witness ==
    \E call \in Calls :
        /\ ~hasPK[call.name] /\ call.phase = "return"
        /\ GetChildren(call.name) /= {}
        /\ NRows(call.extended) >= 2

\* ---------------------------------------------------------------- C6

\* C6: a failure at any node ends the traversal: model_database has failed,
\* nothing is processed afterwards, and neither the table of the failing call
\* nor any table of an enclosing call has a registry entry.
C6_FailurePropagates ==
    /\ [](\A call \in Calls : call.phase = "raised" => pc = "failed")
    /\ [](pc = "failed" => \A call \in Calls : ~models[call.name].fitted)
    /\ [][pc = "failed" => UNCHANGED vars]_vars

\* A fit has failed two calls deep, after another table was registered.
C6_Witness ==
    /\ pc = "failed"
    /\ Len(stack) >= 2
    /\ \E t \in Tables : models[t].fitted

\* ---------------------------------------------------------------- C7

FirstAt(s, v) == CHOOSE i \in DOMAIN s : s[i] = v /\ \A j \in 1..(i - 1) : s[j] /= v

\* C7: the frame _get_extension returns has one row per distinct foreign-key
\* value, indexed by it, in order of first appearance; child_rows is the
\* number of child rows with that value; every column starts '__<child>__'.
C7_Extension ==
    \A call \in Calls :
        call.phase = "merge" =>
            LET fks == KeyValues(call.child_table, FK)
                ext == call.extension
            IN /\ Range(ext.index) = Range(fks)
               /\ Len(ext.index) = Cardinality(Range(fks))
               /\ Len(ext.data) = Len(ext.index)
               /\ \A a, b \in DOMAIN ext.index :
                     a < b => FirstAt(fks, ext.index[a]) < FirstAt(fks, ext.index[b])
               /\ \A r \in DOMAIN ext.index :
                     ext.data[r][ColPos(ext, ChildRowsCol(call.child))] =
                        Num(Cardinality({k \in DOMAIN fks : fks[k] = ext.index[r]}))
               /\ \A c \in DOMAIN ext.cols :
                     StartsWith(ext.cols[c], ChildPrefix(call.child))

\* An extension of two rows from three child rows, the larger key first.
C7_Witness ==
    \E call \in Calls :
        /\ call.phase = "merge"
        /\ NRows(call.child_table) = 3
        /\ Len(call.extension.index) = 2
        /\ call.extension.index[1] > call.extension.index[2]

\* ---------------------------------------------------------------- C8

\* The result of flattening {key: value} when the entry is treated like the
\* entry of any other key.
LikeAnyOther(key, value) ==
    LET plain == FlattenDict(Dict(<<Entry(<<"a">>, value)>>), <<>>)
    IN [i \in DOMAIN plain |->
          [key |-> key \o Tail(plain[i].key), val |-> plain[i].val]]

\* C8, as stated: an entry under fitted, distribution or type is dropped only
\* when its value is a scalar, a nested value (mapping or array of any kind)
\* is recursed into like any other entry, and every value of the result is a
\* scalar.
C8_Flattener ==
    flatDone =>
        /\ \A i \in DOMAIN flat : flat[i].val.tag = "scalar"
        /\ (Len(nested.kids) = 1 /\ nested.kids[1].k \in IGNORED_DICT_KEYS) =>
              flat = IF nested.kids[1].n.tag = "scalar" THEN <<>>
                     ELSE LikeAnyOther(nested.kids[1].k, nested.kids[1].n)

\* ---------------------------------------------------------------- C9

EntirelyMissing(f, c) ==
    NRows(f) > 0 /\ \A r \in 1..NRows(f) : f.data[r][c].na

\* C9, as stated: the imputer raises whenever a column of its input is
\* entirely missing, numeric or not, and model.fit is never called on a table
\* that holds a missing value.
C9_Imputer ==
    fitState /= "call" =>
        /\ (\E c \in DOMAIN data0.cols : EntirelyMissing(data0, c))
              => fitState = "raised"
        /\ fitState = "fit" => ~HasMissing(data)

\* --------------------------------------------------------------- C10

\* C10, as stated: every index value of an extension frame is a value of the
\* parent's primary key.
C10_IndexInPrimaryKey ==
    \A call \in Calls :
        call.phase = "merge" =>
            \A j \in DOMAIN call.extension.index :
                call.extension.index[j] \in PrimaryKeys(call)

\* C10, amended: every index value of an extension frame is a value of the
\* child's foreign-key column and is the index of that one row; it is a
\* value of the parent's primary key when every foreign-key value of the
\* child is one.
C10_IndexInForeignKey ==
    \A call \in Calls :
        call.phase = "merge" =>
            LET fks == Range(KeyValues(call.child_table, FK))
                index == call.extension.index
            IN \A j \in DOMAIN index :
                  /\ index[j] \in fks
                  /\ \A k \in DOMAIN index : index[k] = index[j] => k = j
                  /\ fks \subseteq PrimaryKeys(call) => index[j] \in PrimaryKeys(call)

\* An extension of two rows for a child whose three foreign-key values are
\* all primary-key values of the parent.
C10_Witness ==
    \E call \in Calls :
        /\ call.phase = "merge"
        /\ NRows(call.child_table) = 3
        /\ Len(call.extension.index) = 2
        /\ Range(KeyValues(call.child_table, FK)) \subseteq PrimaryKeys(call)

====
